---- MODULE Spec2Model ----
(***************************************************************************)
(* A model of simple_cfg (src/simple_cfg/cfg.py): the key flattener and    *)
(* unflattener, the boolean coercion, the default extractor, the argument  *)
(* registrar, the dynamic module resolver, the merge-and-validate engine   *)
(* (parse_args) and the workdir resolver.                                  *)
(*                                                                         *)
(* Data representation.                                                    *)
(*   Str     a Python str: a sequence of symbols.  A symbol is a TLA+      *)
(*           string standing for one character, or for a run of characters *)
(*           that contains no separator; the separator itself is always a  *)
(*           symbol of its own ("." or "/").                               *)
(*   scalar  [int |-> i], [str |-> s], [bool |-> b] or None.               *)
(*   dict    a Python dict: a sequence of entries [k |-> key, v |-> value] *)
(*           with distinct keys, in insertion order.  A nested dict value  *)
(*           is [dict |-> d].  Python's == on dicts ignores the order:     *)
(*           DictEq.                                                       *)
(***************************************************************************)
EXTENDS Integers, Sequences, FiniteSets, TLC

VARIABLES
    pc,         \* position of the driver of the sub-model that is running
    d,          \* flatten_dict / unflatten_dict: the nested mapping given
    sep,        \* flatten_dict / unflatten_dict: the separator
    flat,       \* the result of flatten_dict(d, sep)
    nested,     \* the result of unflatten_dict(flat, sep)
    boolArg,    \* str2bool: the argument v
    boolRes,    \* str2bool: what the call returned or raised
    obj,        \* get_default_args: the object given
    defaults,   \* get_default_args: what the call returned or raised
    argv0,      \* sys.argv[0], the path the program was started by
    now,        \* the wall clock, at the resolution of one second
    fs,         \* the paths that exist on the filesystem
    calls,      \* check_workdir: the calls made so far, oldest first
    parser,     \* the ArgumentParser: its registered options, oldest first
    argv,       \* sys.argv[1:], the tokens of the command line
    files,      \* the config files on disk: path -> content
    modules,    \* the importable modules: name -> attribute -> object
    call,       \* the last call made on the parser, with the parser before it
    merged,     \* parse_args: the configuration handed to check_missing_keys
    ret         \* what the last call returned or raised

flatVars == <<d, sep, flat, nested>>
boolVars == <<boolArg, boolRes>>
extractVars == <<obj, defaults>>
wdVars == <<argv0, now, fs, calls>>
cfgVars == <<parser, argv, files, modules, call, merged, ret>>
vars == <<pc, flatVars, boolVars, extractVars, wdVars, cfgVars>>

None == [none |-> TRUE]
PyInt(i) == [int |-> i]
PyStr(s) == [str |-> s]
PyBool(b) == [bool |-> b]
PyDict(x) == [dict |-> x]

\* isinstance(v, dict) or isinstance(v, DictConfig)
IsDict(v) == DOMAIN v = {"dict"}

\* The value a call has not produced yet.
NotRun == [notrun |-> TRUE]
Ok(x) == [ok |-> TRUE, val |-> x]
Raise(kind, names) == [ok |-> FALSE, err |-> kind, names |-> names]
IsOk(r) == DOMAIN r = {"ok", "val"}
IsErr(r) == DOMAIN r = {"ok", "err", "names"}

\* Each specification below runs one sub-model; the variables of the others
\* rest at these values.
FlatIdle == d = <<>> /\ sep = "." /\ flat = NotRun /\ nested = NotRun
BoolIdle == boolArg = NotRun /\ boolRes = NotRun
ExtractIdle == obj = NotRun /\ defaults = NotRun
WdIdle ==
    /\ argv0 = <<"example", ".py">>
    /\ now = [day |-> 0, sec |-> 0]
    /\ fs = {}
    /\ calls = <<>>
CfgIdle ==
    /\ parser = <<>>
    /\ argv = <<>>
    /\ files = <<>>
    /\ modules = <<>>
    /\ call = NotRun
    /\ merged = NotRun
    /\ ret = NotRun

Range(s) == {s[i] : i \in DOMAIN s}
Keys(x) == {x[i].k : i \in DOMAIN x}
HasKey(x, k) == k \in Keys(x)
GetItem(x, k) == (CHOOSE i \in DOMAIN x : x[i].k = k)
Lookup(x, k) == x[GetItem(x, k)].v

\* x[k] = v on a dict: an existing key keeps its position, a new key is appended.
SetItem(x, k, v) ==
    IF HasKey(x, k)
    THEN [i \in DOMAIN x |-> IF x[i].k = k THEN [k |-> k, v |-> v] ELSE x[i]]
    ELSE Append(x, [k |-> k, v |-> v])

\* x.update(y)
RECURSIVE Update(_, _)
Update(x, y) ==
    IF y = <<>> THEN x
    ELSE Update(SetItem(x, Head(y).k, Head(y).v), Tail(y))

\* Python's == on (nested) dicts.
RECURSIVE DictEq(_, _)
DictEq(x, y) ==
    /\ Keys(x) = Keys(y)
    /\ \A k \in Keys(x) :
        LET a == Lookup(x, k)
            b == Lookup(y, k)
        IN IF IsDict(a) /\ IsDict(b) THEN DictEq(a.dict, b.dict)
           ELSE a = b

\* str.split(sep) for a one-symbol separator: every occurrence splits, empty
\* pieces are kept.
RECURSIVE Split(_, _)
Split(s, c) ==
    IF \A i \in DOMAIN s : s[i] # c THEN <<s>>
    ELSE LET i == CHOOSE j \in DOMAIN s :
                    s[j] = c /\ \A l \in 1..(j - 1) : s[l] # c
         IN <<SubSeq(s, 1, i - 1)>> \o Split(SubSeq(s, i + 1, Len(s)), c)

\* JoinKey with the separator left out.
JoinKeyNoSep(k, c, sub_k) == k \o sub_k

\* f"{k}{sep}{sub_k}"
JoinKey(k, c, sub_k) == k \o <<c>> \o sub_k

RECURSIVE flatten_dict(_, _)
RECURSIVE FlattenLoop(_, _, _)
\* { f"{k}{sep}{sub_k}": v for sub_k, v in sub_flat.items() }
RenameKeys(sub_flat, k, c) ==
    [i \in DOMAIN sub_flat |->
        [k |-> JoinKey(k, c, sub_flat[i].k), v |-> sub_flat[i].v]]

\* out_dict after the first n entries of x have been visited.
FlattenLoop(x, c, n) ==
    IF n = 0 THEN <<>>
    ELSE LET out_dict == FlattenLoop(x, c, n - 1)
             e == x[n]
         IN IF IsDict(e.v)
            THEN Update(out_dict, RenameKeys(flatten_dict(e.v.dict, c), e.k, c))
            ELSE SetItem(out_dict, e.k, e.v)

flatten_dict(x, c) == FlattenLoop(x, c, Len(x))

\* insert_rec(root, key, value): the updated root, or TypeError when the path
\* runs through a value that is not a dict.
RECURSIVE insert_rec(_, _, _)
insert_rec(root, key, value) ==
    IF Len(key) = 1 THEN Ok(SetItem(root, key[1], value))
    ELSE LET k == key[1]
             rest == Tail(key)
             root1 == IF HasKey(root, k) THEN root
                      ELSE SetItem(root, k, PyDict(<<>>))
             sub == Lookup(root1, k)
         IN IF ~IsDict(sub) THEN Raise("TypeError", {})
            ELSE LET r == insert_rec(sub.dict, rest, value)
                 IN IF IsOk(r) THEN Ok(SetItem(root1, k, PyDict(r.val)))
                    ELSE r

\* out_dict after the first n entries of x have been inserted.
RECURSIVE UnflattenLoop(_, _, _)
UnflattenLoop(x, c, n) ==
    IF n = 0 THEN Ok(<<>>)
    ELSE LET out == UnflattenLoop(x, c, n - 1)
         IN IF IsOk(out)
            THEN insert_rec(out.val, Split(x[n].k, c), x[n].v)
            ELSE out

unflatten_dict(x, c) == UnflattenLoop(x, c, Len(x))

(***************************************************************************)
(* str2bool.  Here a Str is a sequence of characters, so that str.lower()  *)
(* is modelled by what it does.                                            *)
(***************************************************************************)
UpperToLower ==
    [c \in {"Y", "E", "S", "T", "R", "U", "N", "O", "F", "A", "L", "M", "B"} |->
        CASE c = "Y" -> "y" [] c = "E" -> "e" [] c = "S" -> "s"
          [] c = "T" -> "t" [] c = "R" -> "r" [] c = "U" -> "u"
          [] c = "N" -> "n" [] c = "O" -> "o" [] c = "F" -> "f"
          [] c = "A" -> "a" [] c = "L" -> "l" [] c = "M" -> "m"
          [] c = "B" -> "b"]

\* str.lower() with no case folding at all.
LowerKeepCase(s) == s

\* str.lower()
Lower(s) ==
    [i \in DOMAIN s |->
        IF s[i] \in DOMAIN UpperToLower THEN UpperToLower[s[i]] ELSE s[i]]

TrueWords ==
    {<<"y", "e", "s">>, <<"t", "r", "u", "e">>, <<"t">>, <<"y">>, <<"1">>}
FalseWords ==
    {<<"n", "o">>, <<"f", "a", "l", "s", "e">>, <<"f">>, <<"n">>, <<"0">>}

str2bool(x) ==
    IF DOMAIN x = {"bool"} THEN Ok(x.bool)
    ELSE IF Lower(x.str) \in TrueWords THEN Ok(TRUE)
    ELSE IF Lower(x.str) \in FalseWords THEN Ok(FALSE)
    ELSE Raise("ArgumentTypeError", {})

(***************************************************************************)
(* Inputs of str2bool: every spelling, in upper and lower case, of the     *)
(* words of BoolWords, and every string of at most MaxBoolLen characters   *)
(* of BoolChars.                                                           *)
(***************************************************************************)
MaxBoolLen == 2
BoolChars == {"y", "Y", "n", "N", "t", "T", "f", "F", "1", "0", "o", "e", "2"}
BoolWords ==
    TrueWords \cup FalseWords \cup
    {<<"m", "a", "y", "b", "e">>, <<"o", "n">>, <<"t", "r", "u">>,
     <<"y", "e", "s", "s">>, <<"1", "0">>}

RECURSIVE Spellings(_)
\* w with each letter in lower or in upper case.
Spellings(w) ==
    IF w = <<>> THEN {<<>>}
    ELSE {<<c>> \o t :
            c \in {w[1]} \cup {u \in DOMAIN UpperToLower : UpperToLower[u] = w[1]},
            t \in Spellings(Tail(w))}

BoolStrings ==
    UNION {Spellings(w) : w \in BoolWords}
    \cup UNION {[1..n -> BoolChars] : n \in 0..MaxBoolLen}

BoolInit ==
    /\ pc = "str2bool"
    /\ FlatIdle
    /\ ExtractIdle
    /\ WdIdle
    /\ CfgIdle
    /\ boolArg \in {PyStr(s) : s \in BoolStrings} \cup {PyBool(TRUE), PyBool(FALSE)}
    /\ boolRes = NotRun

Str2BoolStep ==
    /\ pc = "str2bool"
    /\ boolRes' = str2bool(boolArg)
    /\ pc' = "done"
    /\ UNCHANGED <<flatVars, boolArg, extractVars, wdVars, cfgVars>>

BoolNext == Str2BoolStep

SpecBool == BoolInit /\ [][BoolNext]_vars

(***************************************************************************)
(* Claim C8: the boolean coercion.                                         *)
(***************************************************************************)
\* The spellings the claim accepts, written out letter by letter.
IsLetter(c, lo, up) == c = lo \/ c = up
SpelledTrue(s) ==
    \/ Len(s) = 1 /\ (IsLetter(s[1], "y", "Y") \/ IsLetter(s[1], "t", "T") \/ s[1] = "1")
    \/ Len(s) = 3 /\ IsLetter(s[1], "y", "Y") /\ IsLetter(s[2], "e", "E")
                  /\ IsLetter(s[3], "s", "S")
    \/ Len(s) = 4 /\ IsLetter(s[1], "t", "T") /\ IsLetter(s[2], "r", "R")
                  /\ IsLetter(s[3], "u", "U") /\ IsLetter(s[4], "e", "E")
SpelledFalse(s) ==
    \/ Len(s) = 1 /\ (IsLetter(s[1], "n", "N") \/ IsLetter(s[1], "f", "F") \/ s[1] = "0")
    \/ Len(s) = 2 /\ IsLetter(s[1], "n", "N") /\ IsLetter(s[2], "o", "O")
    \/ Len(s) = 5 /\ IsLetter(s[1], "f", "F") /\ IsLetter(s[2], "a", "A")
                  /\ IsLetter(s[3], "l", "L") /\ IsLetter(s[4], "s", "S")
                  /\ IsLetter(s[5], "e", "E")

\* C8: str2bool returns true for a string that is yes, true, t, y or 1 in any
\* letter case, false for one that is no, false, f, n or 0 in any letter case,
\* raises a parse error for every other string, and returns a boolean as is.
C8_Str2Bool ==
    pc = "done" /\ boolArg # NotRun =>
        IF DOMAIN boolArg = {"bool"} THEN boolRes = Ok(boolArg.bool)
        ELSE IF SpelledTrue(boolArg.str) THEN boolRes = Ok(TRUE)
        ELSE IF SpelledFalse(boolArg.str) THEN boolRes = Ok(FALSE)
        ELSE IsErr(boolRes) /\ boolRes.err = "ArgumentTypeError"

\* "TRUE" in capitals has been coerced to true.
C8_Witness ==
    /\ pc = "done"
    /\ boolArg = PyStr(<<"T", "R", "U", "E">>)
    /\ boolRes = Ok(TRUE)


(***************************************************************************)
(* The default extractor.  An object is                                    *)
(*   [kind |-> "function", params, ret]  a Python function: its formal     *)
(*        parameters in order, and what a call with no argument returns;   *)
(*   [kind |-> "class", params]          a class: the formal parameters of *)
(*        its __init__, the instance parameter first;                      *)
(*   [kind |-> "dict", dict]             a plain mapping;                  *)
(*   [kind |-> "int"]                    anything else.                    *)
(* A parameter is [name |-> n, default |-> v], v = Empty when the          *)
(* signature declares no default (inspect.Parameter.empty).                *)
(***************************************************************************)
Empty == [empty |-> TRUE]
SelfName == <<"self">>

RECURSIVE SignatureLoop(_, _)
\* <<default_args, empty_parameters>> after the first n parameters.
SignatureLoop(params, n) ==
    IF n = 0 THEN <<<<>>, <<>>>>
    ELSE LET acc == SignatureLoop(params, n - 1)
             p == params[n]
         IN IF p.name = SelfName THEN acc
            ELSE IF p.default = Empty THEN <<acc[1], Append(acc[2], p.name)>>
            ELSE <<SetItem(acc[1], p.name, p.default), acc[2]>>

get_default_from_signature(params) ==
    LET acc == SignatureLoop(params, Len(params))
    IN IF Len(acc[2]) > 0 THEN Raise("ValueError", Range(acc[2]))
       ELSE Ok(acc[1])

\* get_default_from_fn that never calls fn.
get_default_from_fn_no_call(fn) == get_default_from_signature(fn.params)

get_default_from_fn(fn) ==
    IF Len(fn.params) = 0 THEN Ok(fn.ret)
    ELSE get_default_from_signature(fn.params)

get_default_from_class(cls) == get_default_from_signature(cls.params)

get_default_args(x) ==
    IF x.kind = "function" THEN get_default_from_fn(x)
    ELSE IF x.kind = "class" THEN get_default_from_class(x)
    ELSE Raise("ValueError", {x.kind})

(***************************************************************************)
(* Inputs of the extractor: functions and classes with at most MaxParams   *)
(* parameters, a plain mapping, an int.  The instance parameter of an      *)
(* initializer declares no default; its name is the author's choice.       *)
(***************************************************************************)
MaxParams == 2
ThisName == <<"this">>
ParamNames == {SelfName, <<"arg1">>, <<"arg2">>}
ParamDefaults == {Empty, PyInt(12), PyInt(43)}
ExampleDefaults ==
    <<[k |-> <<"v1">>, v |-> PyInt(12)], [k |-> <<"name">>, v |-> PyStr(<<"example_lib">>)]>>

ParamLists ==
    UNION {{ps \in [1..n -> [name : ParamNames, default : ParamDefaults]] :
                \A i, j \in 1..n : i # j => ps[i].name # ps[j].name}
            : n \in 0..MaxParams}

Objects ==
    {[kind |-> "function", params |-> ps, ret |-> r] :
        ps \in ParamLists, r \in {<<>>, ExampleDefaults}}
    \cup {[kind |-> "class", params |-> ps] :
            ps \in {<<[name |-> n, default |-> Empty]>> \o qs :
                        n \in {SelfName, ThisName},
                        qs \in {rs \in ParamLists : Len(rs) < MaxParams}}}
    \cup {[kind |-> "dict", dict |-> ExampleDefaults], [kind |-> "int"]}

ExtractInit ==
    /\ pc = "get_default_args"
    /\ FlatIdle
    /\ BoolIdle
    /\ WdIdle
    /\ CfgIdle
    /\ obj \in Objects
    /\ defaults = NotRun

GetDefaultArgsStep ==
    /\ pc = "get_default_args"
    /\ defaults' = get_default_args(obj)
    /\ pc' = "done"
    /\ UNCHANGED <<flatVars, boolVars, obj, wdVars, cfgVars>>

ExtractNext == GetDefaultArgsStep

SpecExtract == ExtractInit /\ [][ExtractNext]_vars

(***************************************************************************)
(* The workdir resolver.  A path is a Str whose "/" symbols separate its   *)
(* components; a path that starts with "/" is absolute.                    *)
(***************************************************************************)
Extensions == {".py"}

\* osp.splitext(p)[0]
SplitExtRoot(p) ==
    IF Len(p) >= 2 /\ p[Len(p)] \in Extensions /\ p[Len(p) - 1] # "/"
    THEN SubSeq(p, 1, Len(p) - 1)
    ELSE p

\* osp.join(a, b): an absolute b discards a.
Join2(a, b) ==
    IF b # <<>> /\ b[1] = "/" THEN b
    ELSE IF a = <<>> \/ a[Len(a)] = "/" THEN a \o b
    ELSE a \o <<"/">> \o b

RECURSIVE JoinPath(_)
\* osp.join(*parts)
JoinPath(parts) ==
    IF Len(parts) = 1 THEN parts[1]
    ELSE Join2(JoinPath(SubSeq(parts, 1, Len(parts) - 1)), parts[Len(parts)])

workdir_parent == <<".", "/", "runs">>

\* now.strftime("%d-%m-%Y")
DayStr(t) == "day" \o ToString(t.day)
\* now.strftime("%H:%M:%S")
TimeStr(t) == "sec" \o ToString(t.sec)
\* now.strftime(f"%H:%M:%S({idx})")
TimeStrIdx(t, idx) == TimeStr(t) \o "(" \o ToString(idx) \o ")"

RECURSIVE WorkdirLoop(_, _, _, _, _)
\* The while loop of check_workdir, entered with workdir and idx.
WorkdirLoop(exists, script_name, t, workdir, idx) ==
    IF workdir \in exists
    THEN WorkdirLoop(exists, script_name, t,
            JoinPath(<<workdir_parent, script_name, <<DayStr(t)>>, <<TimeStrIdx(t, idx)>>>>),
            idx + 1)
    ELSE workdir

\* The path check_workdir stores in args.workdir.
ResolveWorkdir(exists, arg0, t) ==
    LET script_name == SplitExtRoot(arg0)
    IN WorkdirLoop(exists, script_name, t,
            JoinPath(<<workdir_parent, script_name, <<DayStr(t)>>, <<TimeStr(t)>>>>), 2)

\* check_workdir(args): args with its workdir field set.
check_workdir(args) ==
    SetItem(args, <<"workdir">>, PyStr(ResolveWorkdir(fs, argv0, now)))

(***************************************************************************)
(* The argument registrar.  A registered option is                         *)
(* [name |-> n, default |-> v, type |-> t]: the flag is "--" followed by   *)
(* n, which is also the key (argparse's dest) of the option in a parsed    *)
(* namespace.  Option names hold no "-".                                   *)
(***************************************************************************)
Names(opts) == {opts[i].name : i \in DOMAIN opts}
OptionOf(opts, name) == opts[CHOOSE i \in DOMAIN opts : opts[i].name = name]

\* parse_type of add_args, by the type of the default.
ParseType(v) ==
    IF v = None THEN "str"
    ELSE IF DOMAIN v = {"bool"} THEN "str2bool"
    ELSE IF DOMAIN v = {"int"} THEN "int"
    ELSE "str"

\* The flag without its "--": prefix.k, or k when the prefix is empty.
QualifiedName(prefix, k) ==
    IF prefix # <<>> THEN prefix \o <<".">> \o k ELSE k

\* parser.add_argument that appends without looking for a conflict.
add_argument_no_conflict_check(opts, name, default, type) ==
    Ok(Append(opts, [name |-> name, default |-> default, type |-> type]))

\* parser.add_argument("--" + name, default=, type=): argparse refuses an
\* option string that is already registered (conflict_handler "error").
add_argument(opts, name, default, type) ==
    IF name \in Names(opts) THEN Raise("ArgumentError", {name})
    ELSE Ok(Append(opts, [name |-> name, default |-> default, type |-> type]))

RECURSIVE AddArgsLoop(_, _, _, _)
\* The parser after the first n entries of dflt, and how the loop ended.
AddArgsLoop(opts, dflt, prefix, n) ==
    IF n = 0 THEN [opts |-> opts, res |-> Ok(None)]
    ELSE LET prev == AddArgsLoop(opts, dflt, prefix, n - 1)
         IN IF IsErr(prev.res) THEN prev
            ELSE LET r == add_argument(prev.opts, QualifiedName(prefix, dflt[n].k),
                                       dflt[n].v, ParseType(dflt[n].v))
                 IN IF IsOk(r) THEN [opts |-> r.val, res |-> Ok(None)]
                    ELSE [opts |-> prev.opts, res |-> r]

add_args(opts, dflt, prefix) == AddArgsLoop(opts, dflt, prefix, Len(dflt))

default_arguments ==
    <<[k |-> <<"seed">>, v |-> PyInt(0)],
      [k |-> <<"cfg_from">>, v |-> None],
      [k |-> <<"workdir">>, v |-> None]>>

get_parser == add_args(<<>>, default_arguments, <<>>).opts

(***************************************************************************)
(* argparse.  A token of a command line is [flag |-> n], the string "--"   *)
(* followed by n, or [short |-> n], the string "-" followed by n (no       *)
(* option is registered with one dash), or [word |-> w], a string w that   *)
(* starts with no "-".                                                     *)
(***************************************************************************)
IsFlag(tok) == DOMAIN tok = {"flag"}
IsWord(tok) == DOMAIN tok = {"word"}
Flag(n) == [flag |-> n]
Short(n) == [short |-> n]
Word(w) == [word |-> w]

IsPrefix(q, t) == Len(q) <= Len(t) /\ SubSeq(t, 1, Len(q)) = q

\* The place of the first "=" of a flag, 0 when it has none.
FirstEq(n) ==
    IF \A i \in DOMAIN n : n[i] # "=" THEN 0
    ELSE CHOOSE i \in DOMAIN n : n[i] = "=" /\ \A j \in 1..(i - 1) : n[j] # "="
OptionPrefix(n) == IF FirstEq(n) = 0 THEN n ELSE SubSeq(n, 1, FirstEq(n) - 1)
ExplicitArg(n) ==
    IF FirstEq(n) = 0 THEN NotRun ELSE PyStr(SubSeq(n, FirstEq(n) + 1, Len(n)))

\* ArgumentParser._parse_optional: the exact flag, or "--name=value", or an
\* unambiguous abbreviation of one flag (allow_abbrev is on by default).
ResolveFlag(opts, n) ==
    IF n \in Names(opts) THEN [how |-> "option", name |-> n, explicit |-> NotRun]
    ELSE IF FirstEq(n) > 0 /\ OptionPrefix(n) \in Names(opts)
    THEN [how |-> "option", name |-> OptionPrefix(n), explicit |-> ExplicitArg(n)]
    ELSE LET cands == {m \in Names(opts) : IsPrefix(OptionPrefix(n), m)}
         IN IF Cardinality(cands) > 1
            THEN [how |-> "ambiguous", name |-> n, explicit |-> NotRun]
            ELSE IF Cardinality(cands) = 1
            THEN [how |-> "option", name |-> CHOOSE m \in cands : TRUE,
                  explicit |-> ExplicitArg(n)]
            ELSE [how |-> "unknown", name |-> n, explicit |-> NotRun]

DigitValue ==
    [c \in {"0", "1", "2", "3", "4", "5", "6", "7", "8", "9"} |->
        CASE c = "0" -> 0 [] c = "1" -> 1 [] c = "2" -> 2 [] c = "3" -> 3
          [] c = "4" -> 4 [] c = "5" -> 5 [] c = "6" -> 6 [] c = "7" -> 7
          [] c = "8" -> 8 [] c = "9" -> 9]
IsNumeral(raw) == raw # <<>> /\ \A i \in DOMAIN raw : raw[i] \in DOMAIN DigitValue
RECURSIVE IntOf(_)
\* int(raw) of a string of digits.
IntOf(raw) ==
    IF raw = <<>> THEN 0
    ELSE 10 * IntOf(SubSeq(raw, 1, Len(raw) - 1)) + DigitValue[raw[Len(raw)]]

\* The option's type applied to the string given on the command line; a
\* failure makes argparse print its usage and exit.
Convert(type, raw) ==
    CASE type = "int" ->
            IF IsNumeral(raw) THEN Ok(PyInt(IntOf(raw))) ELSE Raise("SystemExit", {})
      [] type = "str2bool" ->
            LET r == str2bool(PyStr(raw))
            IN IF IsOk(r) THEN Ok(PyBool(r.val)) ELSE Raise("SystemExit", {})
      [] OTHER -> Ok(PyStr(raw))

\* vars() of the namespace before any token is read: every default.
DefaultNamespace(opts) ==
    [i \in DOMAIN opts |-> [k |-> opts[i].name, v |-> opts[i].default]]

RECURSIVE ParseLoop(_, _, _, _, _)
\* The option read at toks[i] took the converted value v, or the conversion
\* failed; next is the place of the token after the option and its value.
TakeValue(opts, toks, next, ns, extras, name, v) ==
    IF IsErr(v) THEN v
    ELSE ParseLoop(opts, toks, next, SetItem(ns, name, v.val), extras)

\* toks[i] is a flag that argparse resolved as r.
ConsumeFlag(opts, toks, i, ns, extras, r) ==
    CASE r.how = "unknown" ->
            ParseLoop(opts, toks, i + 1, ns, Append(extras, toks[i]))
      [] r.how = "ambiguous" -> Raise("SystemExit", {})
      [] OTHER ->
            IF r.explicit # NotRun
            THEN TakeValue(opts, toks, i + 1, ns, extras, r.name,
                    Convert(OptionOf(opts, r.name).type, r.explicit.str))
            ELSE IF i < Len(toks) /\ IsWord(toks[i + 1])
            THEN TakeValue(opts, toks, i + 2, ns, extras, r.name,
                    Convert(OptionOf(opts, r.name).type, toks[i + 1].word))
            ELSE Raise("SystemExit", {})

\* argparse's pass over the tokens from the i-th on: the namespace and the
\* tokens no option consumed, or SystemExit.
ParseLoop(opts, toks, i, ns, extras) ==
    IF i > Len(toks) THEN Ok([ns |-> ns, extras |-> extras])
    ELSE IF ~IsFlag(toks[i]) THEN ParseLoop(opts, toks, i + 1, ns, Append(extras, toks[i]))
    ELSE ConsumeFlag(opts, toks, i, ns, extras, ResolveFlag(opts, toks[i].flag))

\* parser.parse_known_args(toks)
parse_known_args(opts, toks) == ParseLoop(opts, toks, 1, DefaultNamespace(opts), <<>>)

\* parser.parse_args(toks) from what parse_known_args made of toks: a token
\* left over is an error.
RejectExtras(r) ==
    IF IsOk(r) /\ r.val.extras # <<>> THEN Raise("SystemExit", {}) ELSE r

argparse_parse_args(opts, toks) == RejectExtras(parse_known_args(opts, toks))

(***************************************************************************)
(* The merge-and-validate engine.                                          *)
(***************************************************************************)
CfgFrom == <<"cfg_from">>
WorkdirKey == <<"workdir">>

\* get_cli_passed_args(): read from sys.argv, whatever list is being parsed.
get_cli_passed_args ==
    {argv[i].flag : i \in {j \in DOMAIN argv : IsFlag(argv[j])}} \ {CfgFrom}

\* check_missing_keys that reports both differences in one error.
check_missing_keys_both(opts, args) ==
    LET keys == Names(opts)
        actual_keys == Keys(flatten_dict(args, "."))
    IN IF keys # actual_keys
       THEN Raise("SchemaMismatch", (keys \ actual_keys) \cup (actual_keys \ keys))
       ELSE Ok(None)

check_missing_keys(opts, args) ==
    LET keys == Names(opts)
        actual_keys == Keys(flatten_dict(args, "."))
        missing_keys == keys \ actual_keys
        additional_keys == actual_keys \ keys
    IN IF missing_keys # {} THEN Raise("MissingKeys", missing_keys)
       ELSE IF additional_keys # {} THEN Raise("UnknownKeys", additional_keys)
       ELSE Ok(None)

RECURSIVE OverwriteLoop(_, _, _, _)
\* flat_yaml_args after the loop over cli_non_default_args, the passed keys
\* taken in the order of ns.
OverwriteLoop(flat_yaml_args, ns, passed, n) ==
    IF n = 0 THEN flat_yaml_args
    ELSE LET prev == OverwriteLoop(flat_yaml_args, ns, passed, n - 1)
         IN IF ns[n].k \in passed THEN SetItem(prev, ns[n].k, ns[n].v) ELSE prev

\* {k: v ...} that keeps every key, known or not.
KeepKeys(x, keys) == x

\* {k: v for k, v in x.items() if k in keys}
RECURSIVE FilterKeys(_, _)
FilterKeys(x, keys) ==
    IF x = <<>> THEN <<>>
    ELSE IF Head(x).k \in keys THEN <<Head(x)>> \o FilterKeys(Tail(x), keys)
    ELSE FilterKeys(Tail(x), keys)

\* Lines 339 to 348: the file's flat configuration overwritten with the
\* CLI-passed keys cli_non_default_args, pruned on a partial parse, nested.
OverwriteFromCli(parse_known_only, ns, flat_yaml_args, cli_non_default_args) ==
    IF cli_non_default_args \ Keys(ns) # {}
    \* vassert: the message names one of these
    THEN Raise("UnknownCliArg", cli_non_default_args \ Keys(ns))
    ELSE IF parse_known_only
    THEN unflatten_dict(
            FilterKeys(OverwriteLoop(flat_yaml_args, ns, cli_non_default_args, Len(ns)),
                       Keys(ns)), ".")
    ELSE unflatten_dict(OverwriteLoop(flat_yaml_args, ns, cli_non_default_args, Len(ns)), ".")

\* Lines 358 to 360: vars() of the strict parse, nested.
NestStrict(strict) == IF IsErr(strict) THEN strict ELSE unflatten_dict(strict.val.ns, ".")

\* The three branches of parse_args, lines 325 to 361: the configuration
\* before it is validated.  ns is vars(known_only_args).
MergeArgs(opts, parse_known_only, toks, ns) ==
    IF Lookup(ns, CfgFrom) # None
    THEN IF ~HasKey(files, Lookup(ns, CfgFrom).str)
         THEN Raise("FileNotFoundError", {Lookup(ns, CfgFrom).str})
         ELSE OverwriteFromCli(parse_known_only, ns,
                flatten_dict(Lookup(files, Lookup(ns, CfgFrom).str).dict, "."),
                IF parse_known_only THEN get_cli_passed_args \cap Keys(ns)
                ELSE get_cli_passed_args)
    ELSE IF parse_known_only THEN unflatten_dict(ns, ".")
    ELSE NestStrict(argparse_parse_args(opts, toks))

\* args.workdir on the OmegaConf object, line 366.  A DictConfig without the
\* key gives None under OmegaConf 2.0 and raises from 2.1 on.
WorkdirStep(args, strict_omegaconf) ==
    IF HasKey(args, WorkdirKey)
    THEN IF Lookup(args, WorkdirKey) = None THEN Ok(check_workdir(args)) ELSE Ok(args)
    ELSE IF strict_omegaconf THEN Raise("ConfigAttributeError", {WorkdirKey})
    ELSE Ok(check_workdir(args))

\* Lines 363 to 368, chk being what check_missing_keys did (Ok on a partial
\* parse, which does not call it).
FinishParse(m, chk, strict_omegaconf) ==
    [merged |-> m,
     res |-> IF IsErr(chk) THEN chk ELSE WorkdirStep(m.val, strict_omegaconf)]

\* Lines 363 to 368 on the outcome m of the three branches.
ValidateMerged(opts, parse_known_only, strict_omegaconf, m) ==
    IF IsErr(m) THEN [merged |-> NotRun, res |-> m]
    ELSE FinishParse(m,
            IF parse_known_only THEN Ok(None) ELSE check_missing_keys(opts, m.val),
            strict_omegaconf)

\* Lines 323 to 368 on the outcome known of parse_known_args, line 322.
ParseFromKnown(opts, parse_known_only, toks, strict_omegaconf, known) ==
    IF IsErr(known) THEN [merged |-> NotRun, res |-> known]
    ELSE IF ~HasKey(known.val.ns, CfgFrom)
    THEN [merged |-> NotRun, res |-> Raise("AttributeError", {CfgFrom})]
    ELSE ValidateMerged(opts, parse_known_only, strict_omegaconf,
            MergeArgs(opts, parse_known_only, toks, known.val.ns))

\* The list parse_known_args reads: args, or the command line when args is
\* None.  args is None or [list |-> tokens].
TokensOf(args) == IF args = None THEN argv ELSE args.list

\* parse_args(parser, parse_known_only, args): the configuration handed to
\* the validation (when the call got that far) and what the call returned
\* or raised.
parse_args(opts, parse_known_only, args, strict_omegaconf) ==
    ParseFromKnown(opts, parse_known_only, TokensOf(args), strict_omegaconf,
        parse_known_args(opts, TokensOf(args)))

RECURSIVE GetArgsRec(_, _, _)
\* _rec of get_args_rec: ks is the dotted key, split.
GetArgsRec(ks, args, default) ==
    IF ~HasKey(args, ks[1]) THEN Ok(default)
    ELSE IF Len(ks) = 1 THEN Ok(Lookup(args, ks[1]))
    ELSE IF ~IsDict(Lookup(args, ks[1]))
    \* `k not in args` on a scalar: a substring test on a str, which then
    \* fails at args[k]; a TypeError on anything else.
    THEN IF DOMAIN Lookup(args, ks[1]) = {"str"}
            /\ \A i \in DOMAIN Lookup(args, ks[1]).str :
                    <<Lookup(args, ks[1]).str[i]>> # ks[2]
         THEN Ok(default)
         ELSE Raise("TypeError", {})
    ELSE GetArgsRec(Tail(ks), Lookup(args, ks[1]).dict, default)

get_args_rec(args, prefix, default) == GetArgsRec(Split(prefix, "."), args, default)

\* Lines 233 and 234 on the object obj = getattr(module, loc), the outcome
\* args_to_add of get_default_args(obj) given.
AddExtracted(opts, prefix, args, args_to_add) ==
    IF IsErr(args_to_add) THEN [opts |-> opts, args |-> args, res |-> args_to_add]
    ELSE [opts |-> add_args(opts, args_to_add.val, prefix).opts, args |-> args,
          res |-> add_args(opts, args_to_add.val, prefix).res]

\* Lines 232 to 234 on the imported module.
AddFromModule(opts, prefix, loc, args, module) ==
    IF ~HasKey(module, loc)
    THEN [opts |-> opts, args |-> args, res |-> Raise("AttributeError", {loc})]
    ELSE AddExtracted(opts, prefix, args, get_default_args(Lookup(module, loc)))

\* Lines 230 to 234 on the outcome module_key of get_args_rec.  modules maps
\* an importable name to the attributes of that module.
ImportAndAdd(opts, prefix, loc, args, module_key) ==
    IF IsErr(module_key) THEN [opts |-> opts, args |-> args, res |-> module_key]
    ELSE IF module_key.val = None THEN [opts |-> opts, args |-> args, res |-> Ok(None)]
    ELSE IF DOMAIN module_key.val # {"str"}
    THEN [opts |-> opts, args |-> args, res |-> Raise("TypeError", {})]
    ELSE IF ~HasKey(modules, module_key.val.str)
    THEN [opts |-> opts, args |-> args,
          res |-> Raise("ModuleNotFoundError", {module_key.val.str})]
    ELSE AddFromModule(opts, prefix, loc, args, Lookup(modules, module_key.val.str).dict)

\* Lines 229 to 234 on the outcome args of the partial parse, line 228.
ResolveModule(opts, attr, prefix, loc, args) ==
    IF IsErr(args) THEN [opts |-> opts, args |-> NotRun, res |-> args]
    ELSE ImportAndAdd(opts, prefix, loc, args, get_args_rec(args.val, attr, None))

\* add_module_args(parser, attr, prefix, loc): the parser afterwards, the
\* configuration of its partial parse and how the call ended.
add_module_args(opts, attr, prefix, loc, strict_omegaconf) ==
    ResolveModule(opts, attr, prefix, loc,
        parse_args(opts, TRUE, None, strict_omegaconf).res)

(***************************************************************************)
(* Inputs of the flattener: nested mappings with at most MaxEntries        *)
(* entries in all (nested dicts included), keys from FlatKeys.             *)
(***************************************************************************)
MaxEntries == 3
FlatKeys == {<<"a">>, <<"b">>, <<"a", ".", "b">>}
FlatLeaves == {PyInt(1), PyInt(2)}
Seps == {".", "/"}

RECURSIVE DictsOfSize(_)
\* The dicts with exactly n entries in all.
DictsOfSize(n) ==
    IF n = 0 THEN {<<>>}
    ELSE UNION {
            UNION {
                {Append(x, [k |-> k, v |-> v]) :
                    k \in FlatKeys \ Keys(x),
                    v \in IF s = 0 THEN FlatLeaves \cup {PyDict(<<>>)}
                          ELSE {PyDict(y) : y \in DictsOfSize(s)}}
                : x \in DictsOfSize(n - 1 - s)}
            : s \in 0..(n - 1)}

NestedDicts == UNION {DictsOfSize(n) : n \in 0..MaxEntries}

FlatInit ==
    /\ pc = "flatten"
    /\ BoolIdle
    /\ ExtractIdle
    /\ WdIdle
    /\ CfgIdle
    /\ d \in NestedDicts
    /\ sep \in Seps
    /\ flat = NotRun
    /\ nested = NotRun

FlattenStep ==
    /\ pc = "flatten"
    /\ flat' = flatten_dict(d, sep)
    /\ pc' = "unflatten"
    /\ UNCHANGED <<d, sep, nested, boolVars, extractVars, wdVars, cfgVars>>

UnflattenStep ==
    /\ pc = "unflatten"
    /\ nested' = unflatten_dict(flat, sep)
    /\ pc' = "done"
    /\ UNCHANGED <<d, sep, flat, boolVars, extractVars, wdVars, cfgVars>>

FlatNext == FlattenStep \/ UnflattenStep

SpecFlat == FlatInit /\ [][FlatNext]_vars

(***************************************************************************)
(* Inputs of parse_args: a parser built by get_parser and add_args, a      *)
(* command line of at most MaxItems items, a config file.                  *)
(***************************************************************************)
MaxItems == 2
CfgPath == <<"cfg", ".", "yaml">>
KeyAB == <<"a", ".", "b">>

Items ==
    {<<Flag(CfgFrom), Word(CfgPath)>>,
     <<Flag(KeyAB), Word(<<"2">>)>>,
     <<Flag(KeyAB \o <<"=", "2">>)>>,
     <<Flag(<<"zzz">>), Word(<<"1">>)>>,
     <<Short(<<"z">>), Word(<<"1">>)>>,
     <<Flag(<<"seed">>), Word(<<"5">>)>>,
     <<Flag(<<"a">>), Word(<<"3">>)>>}

RECURSIVE Concat(_)
Concat(ss) == IF ss = <<>> THEN <<>> ELSE Head(ss) \o Concat(Tail(ss))

\* The command lines made of at most n different items.
CommandLinesOf(n) ==
    {Concat(is) : is \in UNION {{js \in [1..m -> Items] :
                                    \A i, j \in 1..m : i # j => js[i] # js[j]}
                                : m \in 0..n}}
CommandLines == CommandLinesOf(MaxItems)

\* The lists a caller hands to parse_args instead of the command line.
ArgLists ==
    {<<>>,
     <<Flag(CfgFrom), Word(CfgPath)>>,
     <<Flag(CfgFrom), Word(CfgPath), Flag(KeyAB), Word(<<"2">>)>>,
     <<Flag(CfgFrom), Word(CfgPath), Flag(<<"zzz">>), Word(<<"1">>)>>}

Parsers ==
    {get_parser,
     add_args(get_parser, <<[k |-> <<"b">>, v |-> PyInt(7)]>>, <<"a">>).opts}

BaseCfg ==
    <<[k |-> <<"seed">>, v |-> PyInt(0)],
      [k |-> CfgFrom, v |-> None],
      [k |-> WorkdirKey, v |-> None]>>
NestedAB == [k |-> <<"a">>, v |-> PyDict(<<[k |-> <<"b">>, v |-> PyInt(1)]>>)]
ExtraY == [k |-> <<"y">>, v |-> PyInt(5)]

CfgContents ==
    {BaseCfg,
     Append(BaseCfg, NestedAB),
     Append(Append(BaseCfg, NestedAB), ExtraY),
     Append(BaseCfg, ExtraY),
     SetItem(Append(BaseCfg, NestedAB), WorkdirKey, PyStr(<<"out">>)),
     <<NestedAB>>}

FileSystems == {<<>>} \cup {<<[k |-> CfgPath, v |-> PyDict(c)]>> : c \in CfgContents}

ParseInit ==
    /\ pc = "parse_args"
    /\ FlatIdle
    /\ BoolIdle
    /\ ExtractIdle
    /\ WdIdle
    /\ parser \in Parsers
    /\ argv \in CommandLines
    /\ files \in FileSystems
    /\ modules = <<>>
    /\ call = NotRun
    /\ merged = NotRun
    /\ ret = NotRun

\* parse_args(parser, parse_known_only, args)
ParseArgsStep ==
    /\ pc = "parse_args"
    /\ \E parse_known_only \in BOOLEAN, strict_omegaconf \in BOOLEAN,
          args \in {None} \cup {[list |-> l] : l \in ArgLists} :
          \E r \in {parse_args(parser, parse_known_only, args, strict_omegaconf)} :
               /\ call' = [op |-> "parse_args", parse_known_only |-> parse_known_only,
                           args |-> args, before |-> parser]
               /\ merged' = r.merged
               /\ ret' = r.res
    /\ pc' = "done"
    /\ UNCHANGED <<flatVars, boolVars, extractVars, wdVars, parser, argv, files, modules>>

ParseNext == ParseArgsStep

SpecParse == ParseInit /\ [][ParseNext]_vars

(***************************************************************************)
(* Registration: a program builds its parser with get_parser and then      *)
(* calls add_args and add_module_args, as example.py does, while the       *)
(* parser holds fewer than MaxOptions options.  The command line and the   *)
(* files do not change while it does so.                                   *)
(***************************************************************************)
MaxOptions == 5
LibKey == <<"lib">>
ExampleLib == <<"example_lib">>

\* example_lib.py: default_args(), class Model, print_arguments(args).
ExampleLibModule ==
    <<[k |-> <<"default_args">>,
       v |-> [kind |-> "function", params |-> <<>>, ret |-> ExampleDefaults]],
      [k |-> <<"Model">>,
       v |-> [kind |-> "class",
              params |-> <<[name |-> SelfName, default |-> Empty],
                           [name |-> <<"only_arg">>, default |-> PyStr(<<"Lonely arg">>)]>>]],
      [k |-> <<"print_arguments">>,
       v |-> [kind |-> "function",
              params |-> <<[name |-> <<"args">>, default |-> Empty]>>, ret |-> None]]>>
ImportableModules == <<[k |-> ExampleLib, v |-> PyDict(ExampleLibModule)]>>

RegDefaults ==
    {<<[k |-> LibKey, v |-> PyStr(ExampleLib)]>>,
     <<[k |-> LibKey, v |-> None]>>,
     <<[k |-> <<"name">>, v |-> PyStr(ExampleLib)]>>,
     ExampleDefaults}
RegPrefixes == {<<>>, <<"m">>}
ModuleKeys == {LibKey, <<"m", ".", "lib">>}
ModulePrefixes == {<<"sub_lib">>, <<"m">>}
ModuleLocs == {<<"default_args">>, <<"Model">>, <<"print_arguments">>}

RegCommandLines ==
    {<<>>,
     <<Flag(LibKey), Word(ExampleLib)>>,
     <<Flag(LibKey), Word(<<"other_lib">>)>>,
     <<Flag(CfgFrom), Word(CfgPath)>>,
     <<Flag(CfgFrom), Word(CfgPath), Flag(LibKey), Word(ExampleLib)>>}
RegFileSystems ==
    {<<>>,
     <<[k |-> CfgPath, v |-> PyDict(BaseCfg)]>>,
     <<[k |-> CfgPath, v |-> PyDict(Append(BaseCfg, [k |-> LibKey, v |-> PyStr(ExampleLib)]))]>>}

RegInit ==
    /\ pc = "register"
    /\ FlatIdle
    /\ BoolIdle
    /\ ExtractIdle
    /\ WdIdle
    /\ parser = get_parser
    /\ argv \in RegCommandLines
    /\ files \in RegFileSystems
    /\ modules = ImportableModules
    /\ call = NotRun
    /\ merged = NotRun
    /\ ret = NotRun

\* add_args(parser, defaults, prefix)
AddArgsStep ==
    /\ pc = "register"
    /\ Len(parser) < MaxOptions
    /\ \E dflt \in RegDefaults, prefix \in RegPrefixes :
          \E r \in {add_args(parser, dflt, prefix)} :
               /\ parser' = r.opts
               /\ call' = [op |-> "add_args", defaults |-> dflt, prefix |-> prefix,
                           before |-> parser]
               /\ ret' = r.res
    /\ merged' = NotRun
    /\ UNCHANGED <<pc, flatVars, boolVars, extractVars, wdVars, argv, files, modules>>

\* add_module_args(parser, attr, prefix, loc); merged keeps the configuration
\* its partial parse returned.
AddModuleArgsStep ==
    /\ pc = "register"
    /\ Len(parser) < MaxOptions
    /\ \E attr \in ModuleKeys, prefix \in ModulePrefixes, loc \in ModuleLocs,
          strict_omegaconf \in BOOLEAN :
          \E r \in {add_module_args(parser, attr, prefix, loc, strict_omegaconf)} :
               /\ parser' = r.opts
               /\ call' = [op |-> "add_module_args", attr |-> attr, prefix |-> prefix,
                           loc |-> loc, before |-> parser]
               /\ merged' = r.args
               /\ ret' = r.res
    /\ UNCHANGED <<pc, flatVars, boolVars, extractVars, wdVars, argv, files, modules>>

RegNext == AddArgsStep \/ AddModuleArgsStep

SpecReg == RegInit /\ [][RegNext]_vars

(***************************************************************************)
(* Runs of a program: each run calls check_workdir through parse_args and  *)
(* then creates the directory, as example.py does; the clock advances.     *)
(* A run is [path, at, seen]: the path returned, the time of the call and  *)
(* the paths that existed then.                                            *)
(***************************************************************************)
MaxRuns == 3
MaxSec == 1
Scripts ==
    {<<"example", ".py">>,
     <<"tools", "/", "example", ".py">>,
     <<"/", "opt", "/", "example", ".py">>}

WorkdirInit ==
    /\ pc = "run"
    /\ FlatIdle
    /\ BoolIdle
    /\ ExtractIdle
    /\ CfgIdle
    /\ argv0 \in Scripts
    /\ now = [day |-> 0, sec |-> 0]
    /\ fs = {}
    /\ calls = <<>>

\* args = check_workdir(args)
CheckWorkdirStep ==
    /\ pc = "run"
    /\ Len(calls) < MaxRuns
    /\ calls' = Append(calls, [path |-> Lookup(check_workdir(<<>>), WorkdirKey).str,
                               at |-> now, seen |-> fs])
    /\ UNCHANGED <<pc, flatVars, boolVars, extractVars, cfgVars, argv0, now, fs>>

\* os.makedirs(args.workdir, exist_ok=False) of a run that has its path.
MakedirsStep ==
    /\ pc = "run"
    /\ \E i \in DOMAIN calls :
        /\ calls[i].path \notin fs
        /\ fs' = fs \cup {calls[i].path}
    /\ UNCHANGED <<pc, flatVars, boolVars, extractVars, cfgVars, argv0, now, calls>>

\* datetime.now() moves on by a second.
TickStep ==
    /\ pc = "run"
    /\ now.sec < MaxSec
    /\ now' = [now EXCEPT !.sec = @ + 1]
    /\ UNCHANGED <<pc, flatVars, boolVars, extractVars, cfgVars, argv0, fs, calls>>

WorkdirNext == CheckWorkdirStep \/ MakedirsStep \/ TickStep

SpecWorkdir == WorkdirInit /\ [][WorkdirNext]_vars

(***************************************************************************)
(* Claim C3: the round trip of flatten_dict and unflatten_dict.            *)
(***************************************************************************)
HasSep(k, c) == \E i \in DOMAIN k : k[i] = c

RECURSIVE LeafKeys(_)
\* The keys, at any depth, whose value is not a dict.
LeafKeys(x) ==
    UNION {IF IsDict(x[i].v) THEN LeafKeys(x[i].v.dict) ELSE {x[i].k} :
            i \in DOMAIN x}

RECURSIVE AllKeys(_)
\* The keys at any depth.
AllKeys(x) ==
    UNION {IF IsDict(x[i].v) THEN {x[i].k} \cup AllKeys(x[i].v.dict)
           ELSE {x[i].k} : i \in DOMAIN x}

RECURSIVE HasEmptyDict(_)
\* Some value, at any depth, is an empty dict.
HasEmptyDict(x) ==
    \E i \in DOMAIN x :
        IsDict(x[i].v) /\ (x[i].v.dict = <<>> \/ HasEmptyDict(x[i].v.dict))

RoundTrips == IsOk(nested) /\ DictEq(nested.val, d)

\* C3 as stated: for every nested mapping in which no leaf key contains the
\* separator, unflatten_dict(flatten_dict(m, sep), sep) == m.
C3_RoundTripLeafKeys ==
    (pc = "done" /\ \A k \in LeafKeys(d) : ~HasSep(k, sep)) => RoundTrips

\* C3 amended: for every nested mapping in which no key at any depth contains
\* the (one-character) separator and no nested mapping is empty,
\* unflatten_dict(flatten_dict(m, sep), sep) == m.
C3_RoundTrip ==
    (/\ pc = "done"
     /\ \A k \in AllKeys(d) : ~HasSep(k, sep)
     /\ ~HasEmptyDict(d)) => RoundTrips

\* A mapping with a nested mapping of two leaves has made the round trip.
C3_Witness ==
    /\ pc = "done"
    /\ sep = "."
    /\ \A k \in AllKeys(d) : ~HasSep(k, sep)
    /\ ~HasEmptyDict(d)
    /\ \E i \in DOMAIN d : IsDict(d[i].v) /\ Len(d[i].v.dict) = 2
    /\ Len(flat) = 2
    /\ RoundTrips

(***************************************************************************)
(* Claims C4 and C5: the default extractor.                                *)
(***************************************************************************)
\* The parameters the claim asks a default of: all of a function's, all but
\* the first (the instance) of an initializer's.
Required(x) == IF x.kind = "class" THEN Tail(x.params) ELSE x.params

\* C4 as stated: on a function or class with one or more named parameters, if
\* every parameter other than the implicit self first parameter of an
\* initializer declares a default, the result is exactly the mapping of
\* parameter name to declared default; otherwise one error names every
\* parameter that lacks a default.
C4_SignatureDefaults ==
    (/\ pc = "done"
     /\ obj # NotRun
     /\ obj.kind \in {"function", "class"}
     /\ Len(obj.params) > 0) =>
        LET req == Required(obj)
            missing == {req[i].name : i \in {j \in DOMAIN req : req[j].default = Empty}}
        IN IF missing = {}
           THEN /\ IsOk(defaults)
                /\ Keys(defaults.val) = {req[i].name : i \in DOMAIN req}
                /\ \A i \in DOMAIN req : Lookup(defaults.val, req[i].name) = req[i].default
           ELSE IsErr(defaults) /\ defaults.names = missing

\* C5 as stated: a plain mapping is returned unchanged; a callable without
\* formal parameters is invoked and its return value is the result; a callable
\* or class with parameters goes through signature extraction; every other
\* kind is rejected with an error naming the kind.
C5_DispatchMapping ==
    (pc = "done" /\ obj # NotRun) =>
        CASE obj.kind = "dict" -> defaults = Ok(obj.dict)
          [] obj.kind = "function" /\ Len(obj.params) = 0 -> defaults = Ok(obj.ret)
          [] obj.kind \in {"function", "class"} /\ Len(obj.params) > 0 ->
                defaults = get_default_from_signature(obj.params)
          [] OTHER -> IsErr(defaults) /\ defaults.names = {obj.kind}

\* C5 amended: a function without formal parameters is invoked and its return
\* value is the result; a function with parameters, and every class (through
\* its initializer), goes through signature extraction; every other kind, a
\* plain mapping included, is rejected with an error naming the kind.
C5_Dispatch ==
    (pc = "done" /\ obj # NotRun) =>
        CASE obj.kind = "function" /\ Len(obj.params) = 0 -> defaults = Ok(obj.ret)
          [] obj.kind = "function" /\ Len(obj.params) > 0 ->
                defaults = get_default_from_signature(obj.params)
          [] obj.kind = "class" ->
                defaults = get_default_from_signature(obj.params)
          [] OTHER -> IsErr(defaults) /\ defaults.err = "ValueError"
                      /\ defaults.names = {obj.kind}

\* Each of the four kinds has been dispatched: this one is a class whose
\* initializer (self, arg1=12) gave {arg1: 12}.
C5_Witness ==
    /\ pc = "done"
    /\ obj # NotRun
    /\ obj.kind = "class"
    /\ obj.params = <<[name |-> SelfName, default |-> Empty],
                      [name |-> <<"arg1">>, default |-> PyInt(12)]>>
    /\ defaults = Ok(<<[k |-> <<"arg1">>, v |-> PyInt(12)]>>)

(***************************************************************************)
(* Claims C1, C2 and C9: parse_args.                                       *)
(***************************************************************************)
IsParseCall == call # NotRun /\ call.op = "parse_args"
\* The tokens the call parsed, and the namespace argparse made of them.
CallToks == TokensOf(call.args)
CallNs == parse_known_args(call.before, CallToks).val.ns
\* The flag --k is among the tokens parsed, as "--k" or as "--k=value".
ExplicitlyPassed(k) ==
    \E i \in DOMAIN CallToks :
        IsFlag(CallToks[i]) /\ OptionPrefix(CallToks[i].flag) = k
\* A token that is a flag and that argparse resolves to no registered option.
UnknownFlagPassed ==
    \E i \in DOMAIN CallToks :
        \/ /\ IsFlag(CallToks[i])
           /\ ResolveFlag(call.before, CallToks[i].flag).how = "unknown"
        \/ DOMAIN CallToks[i] = {"short"}

\* C1 as stated, cfg_from itself left aside (the CLI-passed set of the spec
\* excludes it): when a config file is given, the merged value of every
\* parser-known key is the CLI-parsed value if its flag was explicitly
\* passed, and the config file's value otherwise.
C1_MergePrecedence ==
    (/\ IsParseCall
     /\ IsOk(ret)
     /\ Lookup(CallNs, CfgFrom) # None) =>
        LET file_flat == flatten_dict(Lookup(files, Lookup(CallNs, CfgFrom).str).dict, ".")
            merged_flat == flatten_dict(merged.val, ".")
        IN \A k \in Names(parser) \ {CfgFrom} :
            IF ExplicitlyPassed(k)
            THEN HasKey(merged_flat, k) /\ Lookup(merged_flat, k) = Lookup(CallNs, k)
            ELSE HasKey(file_flat, k) =>
                    HasKey(merged_flat, k) /\ Lookup(merged_flat, k) = Lookup(file_flat, k)

Authoritative == Names(parser)
Actual == Keys(flatten_dict(merged.val, "."))

\* C2 as stated: a full parse raises an error naming every missing key when
\* some key is missing, raises an error naming every additional key when some
\* key is additional, and returns a configuration only when the two key sets
\* are equal; a partial parse validates nothing.
C2_SchemaValidationBoth ==
    (IsParseCall /\ merged # NotRun) =>
        IF call.parse_known_only
        THEN IsErr(ret) => ret.err \notin {"MissingKeys", "UnknownKeys"}
        ELSE /\ Authoritative \ Actual # {} =>
                    IsErr(ret) /\ ret.err = "MissingKeys"
                    /\ ret.names = Authoritative \ Actual
             /\ Actual \ Authoritative # {} =>
                    IsErr(ret) /\ ret.err = "UnknownKeys"
                    /\ ret.names = Actual \ Authoritative
             /\ IsOk(ret) => Authoritative = Actual

\* C2 amended: a full parse raises an error naming every missing key when
\* some key is missing, raises an error naming every additional key when some
\* key is additional and none is missing, and returns a configuration only
\* when the two key sets are equal; a partial parse validates nothing.
C2_SchemaValidation ==
    (IsParseCall /\ merged # NotRun) =>
        IF call.parse_known_only
        THEN IsErr(ret) => ret.err \notin {"MissingKeys", "UnknownKeys"}
        ELSE /\ Authoritative \ Actual # {} =>
                    IsErr(ret) /\ ret.err = "MissingKeys"
                    /\ ret.names = Authoritative \ Actual
             /\ (Actual \ Authoritative # {} /\ Authoritative \ Actual = {}) =>
                    IsErr(ret) /\ ret.err = "UnknownKeys"
                    /\ ret.names = Actual \ Authoritative
             /\ IsOk(ret) => Authoritative = Actual

\* A full parse of a file in which a.b is missing and y is additional has
\* raised the error that names a.b.
C2_Witness ==
    /\ IsParseCall
    /\ ~call.parse_known_only
    /\ merged # NotRun
    /\ Authoritative \ Actual = {KeyAB}
    /\ Actual \ Authoritative = {<<"y">>}
    /\ ret = Raise("MissingKeys", {KeyAB})

\* C9 as stated: a full parse fails on every flag the parser does not know,
\* with or without a config file; a partial parse never fails because of an
\* unknown flag, and the flattened keys of what it returns are parser-known.
C9_UnknownFlags ==
    IsParseCall =>
        IF call.parse_known_only
        THEN /\ IsErr(ret) => ret.err # "UnknownCliArg"
             /\ IsOk(ret) => Keys(flatten_dict(ret.val, ".")) \subseteq Names(parser)
        ELSE UnknownFlagPassed => IsErr(ret)

(***************************************************************************)
(* Claim C6: check_workdir.                                                *)
(***************************************************************************)
ProgramName == SplitExtRoot(argv0)
RunsPrefix(t) == <<".", "/", "runs", "/">> \o ProgramName \o <<"/", DayStr(t), "/">>
HasSuffix(path, t) ==
    \E idx \in 2..(MaxRuns + 2) : path = RunsPrefix(t) \o <<TimeStrIdx(t, idx)>>
IsRunPath(path, t) == path = RunsPrefix(t) \o <<TimeStr(t)>> \/ HasSuffix(path, t)

\* C6 as stated: every call of check_workdir returns
\* ./runs/{program_name}/{day}/{time} or that path with a numeric suffix on
\* the time component, the path returned does not exist when it is returned,
\* and of two runs of the same program within one second (the first has made
\* its directory) the second gets another path, which carries a suffix.
C6_WorkdirResolver ==
    \A i \in DOMAIN calls :
        /\ IsRunPath(calls[i].path, calls[i].at)
        /\ calls[i].path \notin calls[i].seen
        /\ \A j \in DOMAIN calls :
            (i < j /\ calls[i].at = calls[j].at /\ calls[i].path \in calls[j].seen) =>
                /\ calls[j].path # calls[i].path
                /\ HasSuffix(calls[j].path, calls[j].at)

(***************************************************************************)
(* Claims C7 and C10: registration.                                        *)
(***************************************************************************)
IsModuleCall == call # NotRun /\ call.op = "add_module_args"
IsAddArgsCall == call # NotRun /\ call.op = "add_args"
\* The options of the parser that the call under way added.
Added == Names(parser) \ Names(call.before)
KeepsBefore ==
    Len(parser) >= Len(call.before) /\ SubSeq(parser, 1, Len(call.before)) = call.before

\* The value at the dotted key in a nested configuration is present: a leaf
\* that is not null, or a nested mapping with a leaf below it.
PresentAt(cfg, key) ==
    LET flat_cfg == flatten_dict(cfg, ".")
    IN \/ HasKey(flat_cfg, key) /\ Lookup(flat_cfg, key) # None
       \/ \E k \in Keys(flat_cfg) : IsPrefix(key \o <<".">>, k)

NoDuplicateNames ==
    \A i, j \in DOMAIN parser : i # j => parser[i].name # parser[j].name

\* C10: a call of add_args with defaults d and prefix p that returns has
\* registered exactly one option per key k of d, named p.k when p is not
\* empty and k alone when it is, with d[k] as its default; no parser state
\* holds two options of one name; a call that would register a name already
\* there fails and leaves every earlier option as it was.
C10_RegistrarNaming ==
    /\ NoDuplicateNames
    /\ IsAddArgsCall =>
        LET dflt == call.defaults
            pre == call.prefix
            NameOf(k) == IF pre = <<>> THEN k ELSE pre \o <<".">> \o k
        IN /\ KeepsBefore
           /\ IsOk(ret) =>
                /\ Len(parser) = Len(call.before) + Len(dflt)
                /\ Added = {NameOf(k) : k \in Keys(dflt)}
                /\ \A k \in Keys(dflt) : OptionOf(parser, NameOf(k)).default = Lookup(dflt, k)
           /\ IsErr(ret) =>
                /\ ret.err = "ArgumentError"
                /\ \E k \in Keys(dflt) : NameOf(k) \in Names(call.before) /\ ret.names = {NameOf(k)}
           /\ (\E k \in Keys(dflt) : NameOf(k) \in Names(call.before)) => IsErr(ret)

\* add_args under a prefix was refused because an earlier call had already
\* registered the name.
C10_Witness ==
    /\ IsAddArgsCall
    /\ call.prefix # <<>>
    /\ IsErr(ret)
    /\ Len(call.before) > Len(get_parser)
    /\ NoDuplicateNames

====
